---- MODULE Spec2Model ----
(***************************************************************************)
(* IBM TrustBuild, Stage 3: the Governance Guardrail.                      *)
(*                                                                         *)
(* The model follows src/policy_kb.py (the policy registry, its check and  *)
(* correction functions, the framework selector) and                       *)
(* src/governance_agent.py (run_governance_guardrail).                     *)
(*                                                                         *)
(* Python objects are modelled with their identity.  A manifest is a       *)
(* top-level dict whose slots "services", "networking" and                 *)
(* "security_config" hold either no key (MISSING), None (NULL) or a        *)
(* reference to a mutable object of the heap.  {**d} and d.copy() copy     *)
(* the slots, not the objects they refer to.                               *)
(***************************************************************************)
EXTENDS Integers, Sequences, FiniteSets, TLC

\* ------------------------------------------------------------------------
\* Bounds of the model
\* ------------------------------------------------------------------------

\* longest services list of an input manifest
MaxServices == 2

\* longest list handed to get_policies_for_frameworks (specification SpecSel)
MaxRequest == 3

\* number of times the caller invokes the guardrail with the same objects
MaxCalls == 2

\* ------------------------------------------------------------------------
\* Values
\* ------------------------------------------------------------------------

\* a dict slot without the key
MISSING == "MISSING"

\* a dict slot holding None
NULL == "NULL"

\* object identities: the caller's three objects, and the two dicts that
\* setdefault() can create in the working copy
NET_IN == "net_in"
SEC_IN == "sec_in"
SVC_IN == "svc_in"
NET_NEW == "net_new"
SEC_NEW == "sec_new"

Sensitivities == {"public", "PII", "PHI", "PCI"}

\* identifiers handed to the selector; "NIST" is not a known framework
RequestIds == {"HIPAA", "GDPR", "SOC2", "IBM_BASELINE", "NIST"}

\* the members of the ComplianceFramework enumeration
ComplianceFrameworkValues == {"HIPAA", "SOC2", "GDPR", "IBM_BASELINE"}

\* the members of the SeverityLevel enumeration
SeverityLevelValues == {"critical", "warning", "info"}

\* the regions check_region_compliance accepts
EURegions == {"eu-gb", "eu-de", "eu-fr"}

\* {} read through .get(key, False)
NoNetworking == [vpc_enabled |-> FALSE, subnet_isolation |-> FALSE, private_endpoints |-> FALSE]

NoSecurity == [encryption_at_rest |-> FALSE, encryption_in_transit |-> FALSE, audit_logging |-> FALSE, iam_policies |-> FALSE]

NetworkingDicts == [vpc_enabled : BOOLEAN, subnet_isolation : BOOLEAN, private_endpoints : BOOLEAN]

SecurityDicts == [encryption_at_rest : BOOLEAN, encryption_in_transit : BOOLEAN, audit_logging : BOOLEAN, iam_policies : BOOLEAN]

\* the service dicts an architect result is built from; region and plan may
\* be absent from a service dict
ServiceDicts ==
    { [service_name |-> "Db2", service_id |-> "dashdb", role |-> "database", region |-> "us-south", plan |-> "standard"],
      [service_name |-> "Cloudant", service_id |-> "cloudant", role |-> "database", region |-> "eu-de", plan |-> "standard"],
      [service_name |-> "Code Engine", service_id |-> "codeengine", role |-> "hosting", region |-> "us-south", plan |-> MISSING] }

RECURSIVE SeqsUpTo(_, _)
SeqsUpTo(S, n) ==
    IF n = 0 THEN { <<>> }
    ELSE LET shorter == SeqsUpTo(S, n - 1)
         IN  shorter \cup { Append(s, x) : s \in shorter, x \in S }

\* ------------------------------------------------------------------------
\* src/policy_kb.py: the registry
\* ------------------------------------------------------------------------

POLICY_KNOWLEDGE_BASE ==
    << [policy_id |-> "POL-HIPAA-001",
        policy_name |-> "Database VPC Isolation Required",
        framework |-> "HIPAA",
        severity |-> "critical",
        description |-> "All PHI data stores must be isolated within a Virtual Private Cloud with private endpoints only. Public access is strictly prohibited.",
        check_fn |-> "check_vpc_isolation",
        correction_fn |-> "correct_vpc_isolation",
        correction_description |-> "Enabled VPC isolation and configured private endpoints for all database services."],
       [policy_id |-> "POL-HIPAA-002",
        policy_name |-> "Encryption at Rest Required for PHI",
        framework |-> "HIPAA",
        severity |-> "critical",
        description |-> "All Protected Health Information must be encrypted at rest using AES-256 or equivalent. Database plan must be 'dedicated' tier minimum.",
        check_fn |-> "check_encryption_at_rest",
        correction_fn |-> "correct_encryption_at_rest",
        correction_description |-> "Enabled encryption at rest and upgraded database to dedicated tier for PHI compliance."],
       [policy_id |-> "POL-HIPAA-003",
        policy_name |-> "Audit Logging Required for PHI Access",
        framework |-> "HIPAA",
        severity |-> "critical",
        description |-> "All access to PHI must be logged for audit trail compliance. Logging must be enabled at the infrastructure level.",
        check_fn |-> "check_audit_logging_for_phi",
        correction_fn |-> "correct_audit_logging",
        correction_description |-> "Enabled infrastructure-level audit logging for all PHI access points."],
       [policy_id |-> "POL-IBM-001",
        policy_name |-> "Encryption in Transit Required",
        framework |-> "IBM_BASELINE",
        severity |-> "critical",
        description |-> "All data in transit between services must be encrypted using TLS 1.2 or higher. This is a baseline requirement for all IBM Cloud deployments.",
        check_fn |-> "check_encryption_in_transit",
        correction_fn |-> "correct_encryption_in_transit",
        correction_description |-> "Enabled TLS encryption for all service-to-service communication."],
       [policy_id |-> "POL-IBM-002",
        policy_name |-> "Private Endpoints for Sensitive Data",
        framework |-> "IBM_BASELINE",
        severity |-> "warning",
        description |-> "Services handling sensitive data (PHI, PCI, PII) should use private endpoints to avoid routing traffic over the public internet.",
        check_fn |-> "check_private_endpoints",
        correction_fn |-> "correct_private_endpoints",
        correction_description |-> "Configured private endpoints for all sensitive data services."],
       [policy_id |-> "POL-SEC-001",
        policy_name |-> "No Public API Exposure for Sensitive Data",
        framework |-> "IBM_BASELINE",
        severity |-> "critical",
        description |-> "Services processing PHI, PII, or PCI data must not be publicly accessible. VPC and subnet isolation are mandatory.",
        check_fn |-> "check_no_public_api_for_sensitive_data",
        correction_fn |-> "correct_public_api_exposure",
        correction_description |-> "Enabled VPC isolation and subnet segregation to prevent public API exposure."],
       [policy_id |-> "POL-SEC-002",
        policy_name |-> "IAM Policies Required for Enterprise Workloads",
        framework |-> "IBM_BASELINE",
        severity |-> "warning",
        description |-> "Enterprise workloads handling regulated data must have explicit IAM policies defined for role-based access control.",
        check_fn |-> "check_iam_policies_present",
        correction_fn |-> "correct_iam_policies",
        correction_description |-> "Added IAM role-based access control policies for all regulated data services."],
       [policy_id |-> "POL-GDPR-001",
        policy_name |-> "EU Data Residency for GDPR",
        framework |-> "GDPR",
        severity |-> "critical",
        description |-> "Data subject to GDPR must be stored and processed within EU regions only. Acceptable regions: eu-gb, eu-de, eu-fr.",
        check_fn |-> "check_region_compliance",
        correction_fn |-> "correct_region_gdpr",
        correction_description |-> "Migrated all database services to EU region (eu-gb) for GDPR compliance."] >>

\* set(frameworks)
SetOf(seq) == { seq[i] : i \in 1..Len(seq) }

\* the policies of `registry`, in its order, whose framework is in `fset`
RECURSIVE FilterByFramework(_, _)
FilterByFramework(registry, fset) ==
    IF registry = <<>> THEN <<>>
    ELSE IF Head(registry).framework \in fset
         THEN <<Head(registry)>> \o FilterByFramework(Tail(registry), fset)
         ELSE FilterByFramework(Tail(registry), fset)

\* mutant: the baseline framework is not added to the requested set
get_policies_without_baseline(frameworks) ==
    FilterByFramework(POLICY_KNOWLEDGE_BASE, SetOf(frameworks))

get_policies_for_frameworks(frameworks) ==
    FilterByFramework(POLICY_KNOWLEDGE_BASE, SetOf(frameworks) \cup {"IBM_BASELINE"})

\* mutant: the loop takes each policy it has looked at out of the list
SelectOneConsuming(reg, k, frameworks, relevant) ==
    [relevant |-> IF reg[k].framework \in SetOf(frameworks) \cup {"IBM_BASELINE"}
                  THEN Append(relevant, reg[k]) ELSE relevant,
     registry |-> [i \in 1..(Len(reg) - 1) |-> IF i < k THEN reg[i] ELSE reg[i + 1]]]

\* one turn of `for policy in POLICY_KNOWLEDGE_BASE`, at position k of the
\* list as it is now: [relevant, registry] after the turn
SelectOne(reg, k, frameworks, relevant) ==
    [relevant |-> IF reg[k].framework \in SetOf(frameworks) \cup {"IBM_BASELINE"}
                  THEN Append(relevant, reg[k]) ELSE relevant,
     registry |-> reg]

\* ------------------------------------------------------------------------
\* Reading a manifest
\* ------------------------------------------------------------------------

\* the messages of the faults the code can raise on a None slot
AttributeError == "'NoneType' object has no attribute 'get'"

ItemAssignmentError == "'NoneType' object does not support item assignment"

NotIterableError == "'NoneType' object is not iterable"

\* mutant: an absent block reads as a block with every control enabled
DictGetAllEnabled(m, h, key, default) ==
    IF m[key] = MISSING THEN [f \in DOMAIN default |-> TRUE] ELSE h[m[key]]

\* manifest.get(key, default) for a slot that is not None
DictGet(m, h, key, default) ==
    IF m[key] = MISSING THEN default ELSE h[m[key]]

\* any(s.get("role") == "database" for s in services)
HasDatabase(services) ==
    \E i \in 1..Len(services) : services[i].role = "database"

\* ------------------------------------------------------------------------
\* src/policy_kb.py: the check functions.  Each yields "True", "False" or
\* the message of the fault it raises.
\* ------------------------------------------------------------------------

check_vpc_isolation(m, h) ==
    IF m.detected_sensitivity \in {"PHI", "PII"}
    THEN IF m.networking = NULL THEN AttributeError
         ELSE IF ~DictGet(m, h, "networking", NoNetworking).vpc_enabled THEN "False"
         ELSE "True"
    ELSE "True"

check_encryption_at_rest(m, h) ==
    IF m.services = NULL THEN NotIterableError
    ELSE IF HasDatabase(DictGet(m, h, "services", <<>>))
         THEN IF m.security_config = NULL THEN AttributeError
              ELSE IF ~DictGet(m, h, "security_config", NoSecurity).encryption_at_rest THEN "False"
              ELSE "True"
         ELSE "True"

check_encryption_in_transit(m, h) ==
    IF m.security_config = NULL THEN AttributeError
    ELSE IF ~DictGet(m, h, "security_config", NoSecurity).encryption_in_transit THEN "False"
    ELSE "True"

check_audit_logging_for_phi(m, h) ==
    IF m.detected_sensitivity = "PHI"
    THEN IF m.security_config = NULL THEN AttributeError
         ELSE IF ~DictGet(m, h, "security_config", NoSecurity).audit_logging THEN "False"
         ELSE "True"
    ELSE "True"

check_private_endpoints(m, h) ==
    IF m.detected_sensitivity \in {"PHI", "PCI"}
    THEN IF m.networking = NULL THEN AttributeError
         ELSE IF ~DictGet(m, h, "networking", NoNetworking).private_endpoints THEN "False"
         ELSE "True"
    ELSE "True"

check_no_public_api_for_sensitive_data(m, h) ==
    IF m.detected_sensitivity \in {"PHI", "PII", "PCI"}
    THEN IF m.networking = NULL THEN AttributeError
         ELSE IF ~DictGet(m, h, "networking", NoNetworking).vpc_enabled THEN "False"
         ELSE IF ~DictGet(m, h, "networking", NoNetworking).subnet_isolation THEN "False"
         ELSE "True"
    ELSE "True"

check_iam_policies_present(m, h) ==
    IF m.detected_sensitivity \in {"PHI", "PCI"}
    THEN IF m.security_config = NULL THEN AttributeError
         ELSE IF ~DictGet(m, h, "security_config", NoSecurity).iam_policies THEN "False"
         ELSE "True"
    ELSE "True"

check_region_compliance(m, h) ==
    IF m.services = NULL
    THEN IF "GDPR" \in SetOf(m.applicable_frameworks) THEN NotIterableError ELSE "True"
    ELSE LET services == DictGet(m, h, "services", <<>>)
         IN  IF /\ "GDPR" \in SetOf(m.applicable_frameworks)
                /\ \E i \in 1..Len(services) :
                      /\ services[i].role = "database"
                      /\ services[i].region \notin EURegions
             THEN "False"
             ELSE "True"

\* policy.check_fn(manifest)
CheckFn(policy, m, h) ==
    CASE policy.check_fn = "check_vpc_isolation" -> check_vpc_isolation(m, h)
      [] policy.check_fn = "check_encryption_at_rest" -> check_encryption_at_rest(m, h)
      [] policy.check_fn = "check_encryption_in_transit" -> check_encryption_in_transit(m, h)
      [] policy.check_fn = "check_audit_logging_for_phi" -> check_audit_logging_for_phi(m, h)
      [] policy.check_fn = "check_private_endpoints" -> check_private_endpoints(m, h)
      [] policy.check_fn = "check_no_public_api_for_sensitive_data" -> check_no_public_api_for_sensitive_data(m, h)
      [] policy.check_fn = "check_iam_policies_present" -> check_iam_policies_present(m, h)
      [] policy.check_fn = "check_region_compliance" -> check_region_compliance(m, h)

\* ------------------------------------------------------------------------
\* src/policy_kb.py: the correction functions.  Each takes the working
\* state [m, h, error] (a top-level dict, the heap, no fault so far) and
\* yields the working state after it; the dict it returns is the dict it
\* was given.
\* ------------------------------------------------------------------------

\* manifest.setdefault(key, {}): a new empty dict when the key is absent
SetDefault(ws, key, new, empty) ==
    IF ws.m[key] = MISSING
    THEN [ws EXCEPT !.m[key] = new, !.h[new] = empty]
    ELSE ws

\* manifest[key][flag] = True, for each flag of flags
SetFlags(ws, key, flags) ==
    IF ws.m[key] = NULL
    THEN [ws EXCEPT !.error = ItemAssignmentError]
    ELSE [ws EXCEPT !.h[ws.m[key]] =
             [f \in DOMAIN @ |-> IF f \in flags THEN TRUE ELSE @[f]]]

\* for svc in manifest.get("services", []): if role is database: svc[field] = value
SetDatabaseField(ws, field, value) ==
    IF ws.m.services = MISSING THEN ws
    ELSE IF ws.m.services = NULL THEN [ws EXCEPT !.error = NotIterableError]
    ELSE [ws EXCEPT !.h[ws.m.services] =
             [i \in 1..Len(@) |->
                 IF @[i].role = "database" THEN [@[i] EXCEPT ![field] = value] ELSE @[i]]]

correct_vpc_isolation(ws) ==
    SetFlags(SetDefault(ws, "networking", NET_NEW, NoNetworking), "networking",
             {"vpc_enabled", "subnet_isolation", "private_endpoints"})

\* mutant: database plans are upgraded whatever the sensitivity
correct_encryption_at_rest_any_sensitivity(ws) ==
    LET flagged == SetFlags(SetDefault(ws, "security_config", SEC_NEW, NoSecurity),
                            "security_config", {"encryption_at_rest"})
    IN  IF flagged.error # "" THEN flagged
        ELSE SetDatabaseField(flagged, "plan", "dedicated")

correct_encryption_at_rest(ws) ==
    LET flagged == SetFlags(SetDefault(ws, "security_config", SEC_NEW, NoSecurity),
                            "security_config", {"encryption_at_rest"})
    IN  IF flagged.error # "" THEN flagged
        ELSE IF flagged.m.detected_sensitivity = "PHI"
             THEN SetDatabaseField(flagged, "plan", "dedicated")
             ELSE flagged

correct_encryption_in_transit(ws) ==
    SetFlags(SetDefault(ws, "security_config", SEC_NEW, NoSecurity), "security_config",
             {"encryption_in_transit"})

correct_audit_logging(ws) ==
    SetFlags(SetDefault(ws, "security_config", SEC_NEW, NoSecurity), "security_config",
             {"audit_logging"})

\* mutant: the flag written is not the one the check reads
correct_private_endpoints_other_flag(ws) ==
    SetFlags(SetDefault(ws, "networking", NET_NEW, NoNetworking), "networking",
             {"subnet_isolation"})

correct_private_endpoints(ws) ==
    SetFlags(SetDefault(ws, "networking", NET_NEW, NoNetworking), "networking",
             {"private_endpoints"})

\* mutant: subnet isolation is left as it was
correct_public_api_exposure_vpc_only(ws) ==
    SetFlags(SetDefault(ws, "networking", NET_NEW, NoNetworking), "networking",
             {"vpc_enabled", "private_endpoints"})

correct_public_api_exposure(ws) ==
    SetFlags(SetDefault(ws, "networking", NET_NEW, NoNetworking), "networking",
             {"vpc_enabled", "subnet_isolation", "private_endpoints"})

\* mutant: the block is replaced by one holding only the corrected flag
correct_iam_policies_fresh_block(ws) ==
    LET present == SetDefault(ws, "security_config", SEC_NEW, NoSecurity)
    IN  IF present.m.security_config = NULL
        THEN [present EXCEPT !.error = ItemAssignmentError]
        ELSE [present EXCEPT !.h[present.m.security_config] =
                 [NoSecurity EXCEPT !.iam_policies = TRUE]]

correct_iam_policies(ws) ==
    SetFlags(SetDefault(ws, "security_config", SEC_NEW, NoSecurity), "security_config",
             {"iam_policies"})

\* mutant: only a database on a dedicated plan is moved
correct_region_gdpr_dedicated_only(ws) ==
    IF ws.m.services = MISSING THEN ws
    ELSE IF ws.m.services = NULL THEN [ws EXCEPT !.error = NotIterableError]
    ELSE [ws EXCEPT !.h[ws.m.services] =
             [i \in 1..Len(@) |->
                 IF @[i].role = "database" /\ @[i].plan = "dedicated"
                 THEN [@[i] EXCEPT !.region = "eu-gb"] ELSE @[i]]]

\* mutant: every service is moved, whatever its role
correct_region_gdpr_all_services(ws) ==
    IF ws.m.services = MISSING THEN ws
    ELSE IF ws.m.services = NULL THEN [ws EXCEPT !.error = NotIterableError]
    ELSE [ws EXCEPT !.h[ws.m.services] =
             [i \in 1..Len(@) |-> [@[i] EXCEPT !.region = "eu-gb"]]]

correct_region_gdpr(ws) ==
    SetDatabaseField(ws, "region", "eu-gb")

\* policy.correction_fn(manifest)
CorrectionFn(policy, ws) ==
    CASE policy.correction_fn = "correct_vpc_isolation" -> correct_vpc_isolation(ws)
      [] policy.correction_fn = "correct_encryption_at_rest" -> correct_encryption_at_rest(ws)
      [] policy.correction_fn = "correct_encryption_in_transit" -> correct_encryption_in_transit(ws)
      [] policy.correction_fn = "correct_audit_logging" -> correct_audit_logging(ws)
      [] policy.correction_fn = "correct_private_endpoints" -> correct_private_endpoints(ws)
      [] policy.correction_fn = "correct_public_api_exposure" -> correct_public_api_exposure(ws)
      [] policy.correction_fn = "correct_iam_policies" -> correct_iam_policies(ws)
      [] policy.correction_fn = "correct_region_gdpr" -> correct_region_gdpr(ws)

\* ------------------------------------------------------------------------
\* src/governance_agent.py: run_governance_guardrail, part by part
\* ------------------------------------------------------------------------

\* audit_manifest = {**manifest_data, "detected_sensitivity": ..., "applicable_frameworks": ...}:
\* a new top-level dict holding the slots of manifest_data
AuditManifest(manifest_data, intent) ==
    [services |-> manifest_data.services,
     networking |-> manifest_data.networking,
     security_config |-> manifest_data.security_config,
     detected_sensitivity |-> intent.detected_sensitivity,
     applicable_frameworks |-> intent.applicable_frameworks]

\* corrected_manifest = audit_manifest.copy(): a new top-level dict holding
\* the slots of audit_manifest
ShallowCopy(m) == m

\* the PolicyViolation built for a failed policy
Violation(policy) ==
    [policy_id |-> policy.policy_id,
     policy_name |-> policy.policy_name,
     severity |-> policy.severity,
     framework |-> policy.framework,
     description |-> policy.description,
     detected_issue |-> "Policy '" \o policy.policy_name \o "' failed validation on the proposed architecture.",
     auto_correction |-> NULL]

\* SeverityLevel(policy.severity) and ComplianceFramework(policy.framework)
EnumError(policy) ==
    IF policy.severity \notin SeverityLevelValues THEN "not a valid SeverityLevel"
    ELSE IF policy.framework \notin ComplianceFrameworkValues THEN "not a valid ComplianceFramework"
    ELSE ""

\* audit pass 1: [found, error] after the policies of `policies` from
\* position i on have been checked against audit_manifest
RECURSIVE AuditFrom(_, _, _, _, _)
AuditFrom(policies, i, m, h, found) ==
    IF i > Len(policies) THEN [found |-> found, error |-> ""]
    ELSE LET passed == CheckFn(policies[i], m, h)
         IN  IF passed = "True" THEN AuditFrom(policies, i + 1, m, h, found)
             ELSE IF passed = "False"
                  THEN IF EnumError(policies[i]) # ""
                       THEN [found |-> found, error |-> EnumError(policies[i])]
                       ELSE AuditFrom(policies, i + 1, m, h, Append(found, Violation(policies[i])))
             ELSE [found |-> found, error |-> passed]

AuditPass(policies, m, h) == AuditFrom(policies, 1, m, h, <<>>)

\* mutant: the violation is looked up by policy name
MatchingPolicyByName(policies, violation) ==
    IF \E j \in 1..Len(policies) : policies[j].policy_name = violation.policy_id
    THEN CHOOSE j \in 1..Len(policies) : policies[j].policy_name = violation.policy_id
    ELSE 0

\* next((p for p in policies if p.policy_id == violation.policy_id), None):
\* the position of the first match, 0 for None
MatchingPolicy(policies, violation) ==
    IF \E j \in 1..Len(policies) : policies[j].policy_id = violation.policy_id
    THEN CHOOSE j \in 1..Len(policies) :
            /\ policies[j].policy_id = violation.policy_id
            /\ \A k \in 1..(j - 1) : policies[k].policy_id # violation.policy_id
    ELSE 0

\* mutant: the correction note overwrites detected_issue
ModelCopyWrongField(violation, correction_description) ==
    [violation EXCEPT !.detected_issue = correction_description]

\* violation.model_copy(update={"auto_correction": ...}): a new violation
ModelCopy(violation, correction_description) ==
    [violation EXCEPT !.auto_correction = correction_description]

\* the correction loop: [ws, corrected] after the violations of `found` from
\* position i on have been handled; ws.error is set by a fault
RECURSIVE CorrectFrom(_, _, _, _, _)
CorrectFrom(policies, found, i, ws, corrected) ==
    IF i > Len(found) \/ ws.error # "" THEN [ws |-> ws, corrected |-> corrected]
    ELSE LET j == MatchingPolicy(policies, found[i])
         IN  IF j = 0 THEN CorrectFrom(policies, found, i + 1, ws, corrected)
             ELSE LET after == CorrectionFn(policies[j], ws)
                  IN  IF after.error # "" THEN [ws |-> after, corrected |-> corrected]
                      ELSE CorrectFrom(policies, found, i + 1, after,
                               Append(corrected, ModelCopy(found[i], policies[j].correction_description)))

\* mutant: the correction of every selected policy runs, violated or not
CorrectionPassEveryPolicy(policies, found, ws) ==
    CorrectFrom(policies, [i \in 1..Len(policies) |-> Violation(policies[i])], 1, ws, <<>>)

CorrectionPass(policies, found, ws) == CorrectFrom(policies, found, 1, ws, <<>>)

\* audit pass 2: [remaining, error], the policy ids still failing
RECURSIVE RevalidateFrom(_, _, _, _, _)
RevalidateFrom(policies, i, m, h, remaining) ==
    IF i > Len(policies) THEN [remaining |-> remaining, error |-> ""]
    ELSE LET passed == CheckFn(policies[i], m, h)
         IN  IF passed = "True" THEN RevalidateFrom(policies, i + 1, m, h, remaining)
             ELSE IF passed = "False"
                  THEN RevalidateFrom(policies, i + 1, m, h, Append(remaining, policies[i].policy_id))
             ELSE [remaining |-> remaining, error |-> passed]

Revalidate(policies, m, h) == RevalidateFrom(policies, 1, m, h, <<>>)

\* mutant: a service without plan is reported on the dedicated plan
CloudServiceDedicatedDefault(svc) ==
    [service_name |-> IF svc.service_name = MISSING THEN "Unknown" ELSE svc.service_name,
     service_id |-> IF svc.service_id = MISSING THEN "unknown" ELSE svc.service_id,
     role |-> IF svc.role = MISSING THEN "hosting" ELSE svc.role,
     region |-> IF svc.region = MISSING THEN "us-south" ELSE svc.region,
     plan |-> IF svc.plan = MISSING THEN "dedicated" ELSE svc.plan]

\* IBMCloudService(...) for one service dict: absent fields take defaults
CloudService(svc) ==
    [service_name |-> IF svc.service_name = MISSING THEN "Unknown" ELSE svc.service_name,
     service_id |-> IF svc.service_id = MISSING THEN "unknown" ELSE svc.service_id,
     role |-> IF svc.role = MISSING THEN "hosting" ELSE svc.role,
     region |-> IF svc.region = MISSING THEN "us-south" ELSE svc.region,
     plan |-> IF svc.plan = MISSING THEN "standard" ELSE svc.plan]

\* ArchitectureManifest(...): the values of the corrected manifest
FinalManifest(m, h) ==
    LET services == DictGet(m, h, "services", <<>>)
    IN  [services |-> [i \in 1..Len(services) |-> CloudService(services[i])],
         networking |-> DictGet(m, h, "networking", NoNetworking),
         security_config |-> DictGet(m, h, "security_config", NoSecurity)]

\* sum(1 for v in violations if v.severity == severity)
RECURSIVE CountSeverity(_, _)
CountSeverity(violations, severity) ==
    IF violations = <<>> THEN 0
    ELSE (IF Head(violations).severity = severity THEN 1 ELSE 0)
         + CountSeverity(Tail(violations), severity)

Max(a, b) == IF a >= b THEN a ELSE b

\* mutant: warnings are credited, not deducted
CorrectedScoreWarningsCredited(found) ==
    Max(60, 100 - (CountSeverity(found, "critical") * 8) + (CountSeverity(found, "warning") * 3))

\* mutant: the floor of 60 is not applied
CorrectedScoreNoFloor(found) ==
    100 - (CountSeverity(found, "critical") * 8) - (CountSeverity(found, "warning") * 3)

\* the score of a fully corrected audit
CorrectedScore(found) ==
    Max(60, 100 - (CountSeverity(found, "critical") * 8) - (CountSeverity(found, "warning") * 3))

\* mutant: the length comparison is made before the emptiness test
FinalStatusLengthFirst(found, corrected) ==
    IF Len(corrected) = Len(found)
    THEN [status |-> "corrected", score |-> CorrectedScore(found)]
    ELSE [status |-> "failed", score |-> 40]

\* the final status and score
FinalStatus(found, corrected) ==
    IF found = <<>> THEN [status |-> "passed", score |-> 100]
    ELSE IF Len(corrected) = Len(found)
         THEN [status |-> "corrected", score |-> CorrectedScore(found)]
    ELSE [status |-> "failed", score |-> 40]

\* mutant: the requested list is reported as it came
ResolveFrameworksUnfiltered(frameworks) == frameworks

\* [ComplianceFramework(f) for f in frameworks if f in [e.value for e in ComplianceFramework]]
RECURSIVE ResolveFrameworks(_)
ResolveFrameworks(frameworks) ==
    IF frameworks = <<>> THEN <<>>
    ELSE IF Head(frameworks) \in ComplianceFrameworkValues
         THEN <<Head(frameworks)>> \o ResolveFrameworks(Tail(frameworks))
         ELSE ResolveFrameworks(Tail(frameworks))

\* mutant: the except branch drops the message
FailedStageResultNoMessage(error) ==
    [stage_id |-> 3, status |-> "failed", result |-> <<>>, error |-> ""]

\* the StageResult of the except branch; result is the empty dict
FailedStageResult(error) ==
    [stage_id |-> 3, status |-> "failed", result |-> <<>>, error |-> error]

\* the StageResult of the try branch; result holds the dumped report, and
\* error keeps its default, None
ReportStageResult(status, report) ==
    [stage_id |-> 3, status |-> status, result |-> <<report>>, error |-> NULL]

\* the objects setdefault() created die with the call
ReleaseLocals(h) ==
    [h EXCEPT ![NET_NEW] = NoNetworking, ![SEC_NEW] = NoSecurity]

\* run_governance_guardrail(architect_result, intent_result), where
\* manifest_data is architect_result["manifest"] and h the heap at the call.
\* Yields the StageResult returned, the heap at the return, and the locals
\* `policies` and `remaining_violations`.
run_governance_guardrail(manifest_data, h, intent) ==
    LET audit_manifest == AuditManifest(manifest_data, intent)
        selected == get_policies_for_frameworks(intent.applicable_frameworks)
        pass1 == AuditPass(selected, audit_manifest, h)
        fixed == CorrectionPass(selected, pass1.found,
                     [m |-> ShallowCopy(audit_manifest), h |-> h, error |-> ""])
        pass2 == IF pass1.found # <<>>
                 THEN Revalidate(selected, fixed.ws.m, fixed.ws.h)
                 ELSE [remaining |-> <<>>, error |-> ""]
        final == FinalStatus(pass1.found, fixed.corrected)
        report == [status |-> final.status,
                   violations_found |-> pass1.found,
                   violations_corrected |-> fixed.corrected,
                   final_compliance_score |-> final.score,
                   applicable_frameworks |-> ResolveFrameworks(intent.applicable_frameworks),
                   corrected_manifest |-> FinalManifest(fixed.ws.m, fixed.ws.h),
                   tokens_used |-> Len(selected) * 50]
        Fault(error, heapNow, remaining) ==
            [stage_result |-> FailedStageResult(error),
             h |-> ReleaseLocals(heapNow),
             policies |-> selected,
             remaining_violations |-> remaining]
    IN  IF pass1.error # "" THEN Fault(pass1.error, h, <<>>)
        ELSE IF fixed.ws.error # "" THEN Fault(fixed.ws.error, fixed.ws.h, <<>>)
        ELSE IF pass2.error # "" THEN Fault(pass2.error, fixed.ws.h, pass2.remaining)
        ELSE IF fixed.ws.m.services = NULL THEN Fault(NotIterableError, fixed.ws.h, pass2.remaining)
        ELSE [stage_result |-> ReportStageResult(final.status, report),
              h |-> ReleaseLocals(fixed.ws.h),
              policies |-> selected,
              remaining_violations |-> pass2.remaining]

\* ------------------------------------------------------------------------
\* The state
\* ------------------------------------------------------------------------

VARIABLES
    manifest_data,         \* architect_result["manifest"], the caller's top-level dict
    heap,                  \* the objects the manifest dicts refer to
    intent_result,         \* the caller's intent_result
    stage_result,          \* the StageResult of the latest call
    policies,              \* the policies selected by the latest call
    remaining_violations,  \* the policy ids the latest call found failing in pass 2
    heap_before,           \* the heap when the latest call began
    first_result,          \* the StageResult of the first call on these objects
    calls,                 \* how many calls have returned
    registry,              \* the module-level list POLICY_KNOWLEDGE_BASE
    inv                    \* the frames of the calls running in concurrent request handlers

vars == <<manifest_data, heap, intent_result, stage_result, policies,
          remaining_violations, heap_before, first_result, calls, registry, inv>>

\* before any call: no manifest, no result
NoStageResult == [stage_id |-> 0, status |-> "none", result |-> <<>>, error |-> NULL]

EmptyHeap ==
    [net_in |-> NoNetworking, sec_in |-> NoSecurity, svc_in |-> <<>>,
     net_new |-> NoNetworking, sec_new |-> NoSecurity]

\* the manifests of an architect result: each of the three keys is absent
\* or holds an object; security_config may also hold None
ManifestDicts ==
    [services : {MISSING, SVC_IN},
     networking : {MISSING, NET_IN},
     security_config : {MISSING, NULL, SEC_IN}]

\* the heaps that go with a manifest: objects that are not referred to are empty
HeapsOf(md) ==
    [net_in : IF md.networking = NET_IN THEN NetworkingDicts ELSE {NoNetworking},
     sec_in : IF md.security_config = SEC_IN THEN SecurityDicts ELSE {NoSecurity},
     svc_in : IF md.services = SVC_IN THEN SeqsUpTo(ServiceDicts, MaxServices) ELSE { <<>> },
     net_new : {NoNetworking},
     sec_new : {NoSecurity}]

\* the applicable_frameworks lists of an intent result: none, one known or
\* unknown identifier, two in either order, and a list with an unknown
\* identifier and a repeated one
FrameworkLists ==
    { <<>>, <<"HIPAA">>, <<"GDPR">>, <<"NIST">>, <<"HIPAA", "GDPR">>,
      <<"GDPR", "NIST", "HIPAA", "GDPR">> }

IntentResults ==
    [detected_sensitivity : Sensitivities, applicable_frameworks : FrameworkLists]

\* the request handlers that may run a call at the same time
Procs == {1, 2}

\* the frame of a call on manifest md (objects in h) and intent: where the
\* call is (pc, and k within a loop) and its locals
Frame(md, h, intent) ==
    [pc |-> "idle", k |-> 1, md |-> md, h0 |-> h, intent |-> intent,
     relevant |-> <<>>, found |-> <<>>,
     ws |-> [m |-> ShallowCopy(AuditManifest(md, intent)), h |-> h, error |-> ""],
     corrected |-> <<>>, remaining |-> <<>>, result |-> NoStageResult,
     overlapped |-> FALSE]

\* no concurrent request handler exists: there are no frames
NoCalls == <<>>

\* the calls of concurrent request handlers: each on objects of its own
ConcInputs ==
    { [md |-> [services |-> SVC_IN, networking |-> NET_IN, security_config |-> SEC_IN],
       h |-> [EmptyHeap EXCEPT !.svc_in =
                 << [service_name |-> "Db2", service_id |-> "dashdb", role |-> "database", region |-> "us-south", plan |-> "standard"],
                    [service_name |-> "Code Engine", service_id |-> "codeengine", role |-> "hosting", region |-> "us-south", plan |-> MISSING] >>],
       intent |-> [detected_sensitivity |-> "PHI", applicable_frameworks |-> <<"HIPAA", "GDPR">>]],
      [md |-> [services |-> SVC_IN, networking |-> MISSING, security_config |-> SEC_IN],
       h |-> [EmptyHeap EXCEPT !.svc_in =
                 << [service_name |-> "Cloudant", service_id |-> "cloudant", role |-> "database", region |-> "eu-de", plan |-> "standard"] >>,
                               !.sec_in = [f \in DOMAIN NoSecurity |-> TRUE]],
       intent |-> [detected_sensitivity |-> "public", applicable_frameworks |-> <<>>]],
      [md |-> [services |-> MISSING, networking |-> NET_IN, security_config |-> SEC_IN],
       h |-> [EmptyHeap EXCEPT !.net_in = [f \in DOMAIN NoNetworking |-> TRUE],
                               !.sec_in = [f \in DOMAIN NoSecurity |-> TRUE]],
       intent |-> [detected_sensitivity |-> "PII", applicable_frameworks |-> <<"NIST">>]],
      [md |-> [services |-> MISSING, networking |-> NET_IN, security_config |-> NULL],
       h |-> EmptyHeap,
       intent |-> [detected_sensitivity |-> "PII", applicable_frameworks |-> <<"GDPR">>]] }

\* stages 1 and 2 have produced their outputs; stage 3 has not run
Init ==
    /\ manifest_data \in ManifestDicts
    /\ heap \in HeapsOf(manifest_data)
    /\ intent_result \in IntentResults
    /\ stage_result = NoStageResult
    /\ policies = <<>>
    /\ remaining_violations = <<>>
    /\ heap_before = heap
    /\ first_result = NoStageResult
    /\ calls = 0
    /\ registry = POLICY_KNOWLEDGE_BASE
    /\ inv = NoCalls

\* no pipeline run: an empty manifest, used to exercise the selector alone
InitSel ==
    /\ manifest_data = [services |-> MISSING, networking |-> MISSING, security_config |-> MISSING]
    /\ heap = EmptyHeap
    /\ intent_result = [detected_sensitivity |-> "public", applicable_frameworks |-> <<>>]
    /\ stage_result = NoStageResult
    /\ policies = <<>>
    /\ remaining_violations = <<>>
    /\ heap_before = EmptyHeap
    /\ first_result = NoStageResult
    /\ calls = 0
    /\ registry = POLICY_KNOWLEDGE_BASE
    /\ inv = NoCalls

\* the pipeline driver calls run_governance_guardrail(architect_result, intent_result)
Invoke ==
    /\ calls = 0
    /\ \E out \in {run_governance_guardrail(manifest_data, heap, intent_result)} :
           /\ heap_before' = heap
           /\ heap' = out.h
           /\ stage_result' = out.stage_result
           /\ policies' = out.policies
           /\ remaining_violations' = out.remaining_violations
           /\ first_result' = out.stage_result
           /\ calls' = 1
           /\ UNCHANGED <<manifest_data, intent_result, registry, inv>>

\* the caller calls again with the same architect_result and intent_result
Reinvoke ==
    /\ calls >= 1
    /\ calls < MaxCalls
    /\ \E out \in {run_governance_guardrail(manifest_data, heap, intent_result)} :
           /\ heap_before' = heap
           /\ heap' = out.h
           /\ stage_result' = out.stage_result
           /\ policies' = out.policies
           /\ remaining_violations' = out.remaining_violations
           /\ calls' = calls + 1
           /\ UNCHANGED <<manifest_data, intent_result, first_result, registry, inv>>

\* get_policies_for_frameworks(request) called on its own
SelectPolicies ==
    /\ calls = 0
    /\ \E request \in SeqsUpTo(RequestIds, MaxRequest) :
         /\ intent_result' = [intent_result EXCEPT !.applicable_frameworks = request]
         /\ policies' = get_policies_for_frameworks(request)
    /\ UNCHANGED <<manifest_data, heap, stage_result, remaining_violations,
                   heap_before, first_result, calls, registry, inv>>

\* the correction function of the i-th policy of the registry, applied to ws
Correction(i, ws) == CorrectionFn(POLICY_KNOWLEDGE_BASE[i], ws)

\* the caller's manifest as the dict a correction function is handed
WorkingCopyNow ==
    [m |-> ShallowCopy(AuditManifest(manifest_data, intent_result)), h |-> heap, error |-> ""]

\* the services lists the correction functions are exercised on: none, each
\* service dict alone, a database with a hosting service, two databases
CorrServiceLists ==
    { <<>> } \cup { <<svc>> : svc \in ServiceDicts }
      \cup { <<db, svc>> : db \in { d \in ServiceDicts : d.region = "us-south" /\ d.role = "database" },
                           svc \in { d \in ServiceDicts : d.region # "us-south" \/ d.role # "database" } }

\* the heaps that go with a manifest handed to a correction function
HeapsOfCorr(md) ==
    [net_in : IF md.networking = NET_IN THEN NetworkingDicts ELSE {NoNetworking},
     sec_in : IF md.security_config = SEC_IN THEN SecurityDicts ELSE {NoSecurity},
     svc_in : IF md.services = SVC_IN THEN CorrServiceLists ELSE { <<>> },
     net_new : {NoNetworking},
     sec_new : {NoSecurity}]

\* manifests a correction function can be handed: no key holds None
InitCorr ==
    /\ manifest_data \in { md \in ManifestDicts : md.security_config # NULL }
    /\ heap \in HeapsOfCorr(manifest_data)
    /\ intent_result \in [detected_sensitivity : Sensitivities, applicable_frameworks : { <<>> }]
    /\ stage_result = NoStageResult
    /\ policies = <<>>
    /\ remaining_violations = <<>>
    /\ heap_before = EmptyHeap
    /\ first_result = NoStageResult
    /\ calls = 0
    /\ registry = POLICY_KNOWLEDGE_BASE
    /\ inv = NoCalls

\* policy.correction_fn(manifest) for one policy of the registry, in place
ApplyCorrection ==
    \E i \in 1..Len(POLICY_KNOWLEDGE_BASE) :
       \E after \in {Correction(i, WorkingCopyNow)} :
          /\ after.error = ""
          /\ manifest_data' = [services |-> after.m.services,
                               networking |-> after.m.networking,
                               security_config |-> after.m.security_config]
          /\ heap' = after.h
          /\ UNCHANGED <<intent_result, stage_result, policies, remaining_violations,
                         heap_before, first_result, calls, registry, inv>>

\* no call is running; each handler has its architect result and intent result
InitConc ==
    /\ manifest_data = [services |-> MISSING, networking |-> MISSING, security_config |-> MISSING]
    /\ heap = EmptyHeap
    /\ intent_result = [detected_sensitivity |-> "public", applicable_frameworks |-> <<>>]
    /\ stage_result = NoStageResult
    /\ policies = <<>>
    /\ remaining_violations = <<>>
    /\ heap_before = EmptyHeap
    /\ first_result = NoStageResult
    /\ calls = 0
    /\ registry = POLICY_KNOWLEDGE_BASE
    /\ inv \in [Procs -> { Frame(x.md, x.h, x.intent) : x \in ConcInputs }]

\* the variables of the single caller, which the concurrent handlers do not touch
callerVars == <<manifest_data, heap, intent_result, stage_result, policies,
                remaining_violations, heap_before, first_result, calls>>

\* the except branch: the frame after the call has returned the failed StageResult
FailedFrame(f, error, h) ==
    [f EXCEPT !.pc = "done", !.result = FailedStageResult(error), !.ws.h = ReleaseLocals(h)]

\* handler p calls run_governance_guardrail: audit_manifest is built and the
\* selector entered
Call(p) ==
    /\ inv[p].pc = "idle"
    /\ inv' = [q \in Procs |->
                 IF q = p
                 THEN [inv[p] EXCEPT !.pc = "select", !.k = 1,
                                     !.overlapped = \E r \in Procs \ {p} : inv[r].pc \notin {"idle", "done"}]
                 ELSE IF inv[q].pc \notin {"idle", "done"}
                      THEN [inv[q] EXCEPT !.overlapped = TRUE]
                      ELSE inv[q]]
    /\ UNCHANGED registry
    /\ UNCHANGED callerVars

\* get_policies_for_frameworks: one turn of the loop over the registry, or its end
SelectStep(p) ==
    /\ inv[p].pc = "select"
    /\ IF inv[p].k > Len(registry)
       THEN /\ inv' = [inv EXCEPT ![p].pc = "pass1", ![p].k = 1]
            /\ UNCHANGED registry
       ELSE \E out \in {SelectOne(registry, inv[p].k, inv[p].intent.applicable_frameworks, inv[p].relevant)} :
               /\ inv' = [inv EXCEPT ![p].relevant = out.relevant, ![p].k = inv[p].k + 1]
               /\ registry' = out.registry
    /\ UNCHANGED callerVars

\* audit pass 1: one turn of the loop over the selected policies, or its end
CheckStep(p) ==
    /\ inv[p].pc = "pass1"
    /\ IF inv[p].k > Len(inv[p].relevant)
       THEN inv' = [inv EXCEPT ![p].pc = IF inv[p].found = <<>> THEN "build" ELSE "correct",
                               ![p].k = 1]
       ELSE \E r \in {AuditFrom(<<inv[p].relevant[inv[p].k]>>, 1,
                                AuditManifest(inv[p].md, inv[p].intent), inv[p].ws.h, inv[p].found)} :
               inv' = [inv EXCEPT ![p] =
                          IF r.error # "" THEN FailedFrame(inv[p], r.error, inv[p].ws.h)
                          ELSE [inv[p] EXCEPT !.found = r.found, !.k = inv[p].k + 1]]
    /\ UNCHANGED registry
    /\ UNCHANGED callerVars

\* the correction pass: one turn of the loop over violations_found, or its end
CorrectStep(p) ==
    /\ inv[p].pc = "correct"
    /\ IF inv[p].k > Len(inv[p].found)
       THEN inv' = [inv EXCEPT ![p].pc = "pass2", ![p].k = 1]
       ELSE \E r \in {CorrectFrom(inv[p].relevant, <<inv[p].found[inv[p].k]>>, 1,
                                  inv[p].ws, inv[p].corrected)} :
               inv' = [inv EXCEPT ![p] =
                          IF r.ws.error # "" THEN FailedFrame(inv[p], r.ws.error, r.ws.h)
                          ELSE [inv[p] EXCEPT !.ws = r.ws, !.corrected = r.corrected,
                                              !.k = inv[p].k + 1]]
    /\ UNCHANGED registry
    /\ UNCHANGED callerVars

\* audit pass 2: one turn of the loop over the selected policies, or its end
RecheckStep(p) ==
    /\ inv[p].pc = "pass2"
    /\ IF inv[p].k > Len(inv[p].relevant)
       THEN inv' = [inv EXCEPT ![p].pc = "build", ![p].k = 1]
       ELSE \E r \in {RevalidateFrom(<<inv[p].relevant[inv[p].k]>>, 1,
                                     inv[p].ws.m, inv[p].ws.h, inv[p].remaining)} :
               inv' = [inv EXCEPT ![p] =
                          IF r.error # "" THEN FailedFrame(inv[p], r.error, inv[p].ws.h)
                          ELSE [inv[p] EXCEPT !.remaining = r.remaining, !.k = inv[p].k + 1]]
    /\ UNCHANGED registry
    /\ UNCHANGED callerVars

\* the final manifest, status, score and report are built and the call returns
Build(p) ==
    /\ inv[p].pc = "build"
    /\ LET f == inv[p]
           final == FinalStatus(f.found, f.corrected)
           report == [status |-> final.status,
                      violations_found |-> f.found,
                      violations_corrected |-> f.corrected,
                      final_compliance_score |-> final.score,
                      applicable_frameworks |-> ResolveFrameworks(f.intent.applicable_frameworks),
                      corrected_manifest |-> FinalManifest(f.ws.m, f.ws.h),
                      tokens_used |-> Len(f.relevant) * 50]
       IN  inv' = [inv EXCEPT ![p] =
                      IF f.ws.m.services = NULL THEN FailedFrame(f, NotIterableError, f.ws.h)
                      ELSE [f EXCEPT !.pc = "done",
                                     !.result = ReportStageResult(final.status, report),
                                     !.ws.h = ReleaseLocals(f.ws.h)]]
    /\ UNCHANGED registry
    /\ UNCHANGED callerVars

Next == Invoke

NextRepeat == Invoke \/ Reinvoke

NextSel == SelectPolicies

NextCorr == ApplyCorrection

\* handler p, its call returned, takes its next request
NextRequest(p) ==
    /\ inv[p].pc = "done"
    /\ \E x \in ConcInputs : inv' = [inv EXCEPT ![p] = Frame(x.md, x.h, x.intent)]
    /\ UNCHANGED registry
    /\ UNCHANGED callerVars

NextConc ==
    \E p \in Procs :
       \/ Call(p)
       \/ SelectStep(p)
       \/ CheckStep(p)
       \/ CorrectStep(p)
       \/ RecheckStep(p)
       \/ Build(p)
       \/ NextRequest(p)

\* one audit call per architect result
Spec == Init /\ [][Next]_vars

\* the caller may call again with the same objects
SpecRepeat == Init /\ [][NextRepeat]_vars

\* the framework selector alone
SpecSel == InitSel /\ [][NextSel]_vars

\* the correction functions alone, applied in any order
SpecCorr == InitCorr /\ [][NextCorr]_vars

\* calls of concurrent request handlers, interleaved turn by turn
SpecConc == InitConc /\ [][NextConc]_vars

\* ------------------------------------------------------------------------
\* Properties
\* ------------------------------------------------------------------------

\* the latest call returned a report
HasReport == calls >= 1 /\ stage_result.result # <<>>

\* the report of the latest call
Report == stage_result.result[1]

\* the manifest the latest call audited in pass 1
InputManifest == AuditManifest(manifest_data, intent_result)

\* policy p fails on the manifest as it was when the latest call began
FailsOnInput(p) == CheckFn(p, InputManifest, heap_before) = "False"

\* the positions of `policies` whose policy fails on the input and has severity sev
FailingOnInput(sev) ==
    { i \in 1..Len(policies) : policies[i].severity = sev /\ FailsOnInput(policies[i]) }

\* the caller's manifest holds all three of services, networking, security_config
FullManifest ==
    /\ manifest_data.services = SVC_IN
    /\ manifest_data.networking = NET_IN
    /\ manifest_data.security_config = SEC_IN

\* C1: run_governance_guardrail never mutates the caller's manifest: after
\* the call has returned (with any status), the services (each region and
\* plan), the networking flags and the security_config flags of a manifest
\* that holds all three are what they were before the call.
C1_InputNeverMutated ==
    (calls >= 1 /\ FullManifest) =>
        /\ Len(heap[SVC_IN]) = Len(heap_before[SVC_IN])
        /\ \A i \in 1..Len(heap_before[SVC_IN]) :
              /\ heap[SVC_IN][i].region = heap_before[SVC_IN][i].region
              /\ heap[SVC_IN][i].plan = heap_before[SVC_IN][i].plan
        /\ heap[NET_IN] = heap_before[NET_IN]
        /\ heap[SEC_IN] = heap_before[SEC_IN]

\* the policies of the registry, as a set
RegistryPolicies == { POLICY_KNOWLEDGE_BASE[i] : i \in 1..Len(POLICY_KNOWLEDGE_BASE) }

\* C2: for every request F (empty, with duplicates, with unknown
\* identifiers) get_policies_for_frameworks(F) holds exactly the registry
\* policies whose framework is in F or is IBM_BASELINE, each once; for the
\* empty request these are exactly the IBM_BASELINE policies.
C2_SelectorExact ==
    LET F == SetOf(intent_result.applicable_frameworks)
        got == { policies[j] : j \in 1..Len(policies) }
    IN  policies # <<>> =>
            /\ got = { p \in RegistryPolicies : p.framework \in F \/ p.framework = "IBM_BASELINE" }
            /\ \A j, k \in 1..Len(policies) : policies[j] = policies[k] => j = k
            /\ \A p \in RegistryPolicies : p.framework = "IBM_BASELINE" => p \in got
            /\ (intent_result.applicable_frameworks = <<>> =>
                  got = { p \in RegistryPolicies : p.framework = "IBM_BASELINE" })

\* a request with an unknown and a repeated identifier has been served
C2_Witness ==
    /\ intent_result.applicable_frameworks = <<"NIST", "HIPAA", "HIPAA">>
    /\ Len(policies) = 7

\* C3: a call that finds no violation in pass 1 reports PASSED with score
\* 100 and empty found and corrected lists, and a report is PASSED only if
\* no selected policy fails on the input.
C3_PassedIffNoViolation ==
    HasReport =>
        /\ (\A i \in 1..Len(policies) : ~FailsOnInput(policies[i])) =>
              /\ Report.status = "passed"
              /\ stage_result.status = "passed"
              /\ Report.final_compliance_score = 100
              /\ Report.violations_found = <<>>
              /\ Report.violations_corrected = <<>>
        /\ Report.status = "passed" =>
              \A i \in 1..Len(policies) : ~FailsOnInput(policies[i])

\* a PHI manifest audited against HIPAA passes
C3_Witness ==
    /\ HasReport
    /\ Report.status = "passed"
    /\ intent_result.detected_sensitivity = "PHI"
    /\ "HIPAA" \in SetOf(intent_result.applicable_frameworks)
    /\ Len(heap_before[SVC_IN]) > 0

\* max(60, 100 - 8c - 3w) for the failures of the input, counted per policy
ExpectedScore ==
    LET c == Cardinality(FailingOnInput("critical"))
        w == Cardinality(FailingOnInput("warning"))
    IN  IF 100 - 8 * c - 3 * w < 60 THEN 60 ELSE 100 - 8 * c - 3 * w

\* C4: a CORRECTED report scores max(60, 100 - 8c - 3w), c and w being the
\* critical and warning violations of pass 1, so the score lies in
\* [60, 100]; one critical alone scores 92, three critical and two warning
\* score 70.
C4_CorrectedScore ==
    (HasReport /\ Report.status = "corrected") =>
        /\ Report.final_compliance_score = ExpectedScore
        /\ Report.final_compliance_score >= 60
        /\ Report.final_compliance_score <= 100
        /\ (Cardinality(FailingOnInput("critical")) = 1 /\ FailingOnInput("warning") = {}) =>
              Report.final_compliance_score = 92
        /\ (Cardinality(FailingOnInput("critical")) = 3 /\ Cardinality(FailingOnInput("warning")) = 2) =>
              Report.final_compliance_score = 70

\* three critical and two warning violations were corrected
C4_Witness ==
    /\ HasReport
    /\ Report.status = "corrected"
    /\ Cardinality(FailingOnInput("critical")) = 3
    /\ Cardinality(FailingOnInput("warning")) = 2
    /\ Report.final_compliance_score = 70

\* C5: in a call without fault every violation of pass 1 resolves to a
\* policy of the active set, so as many violations are corrected as were
\* found and the report is PASSED or CORRECTED, never FAILED with score 40.
C5_NeverFailedReport ==
    HasReport =>
        /\ \A i \in 1..Len(Report.violations_found) :
              \E j \in 1..Len(policies) :
                  policies[j].policy_id = Report.violations_found[i].policy_id
        /\ Len(Report.violations_corrected) = Len(Report.violations_found)
        /\ Report.status \in {"passed", "corrected"}
        /\ stage_result.status \in {"passed", "corrected"}
        /\ Report.final_compliance_score # 40

\* every policy of the registry was violated and corrected
C5_Witness ==
    /\ HasReport
    /\ Len(Report.violations_found) = Len(POLICY_KNOWLEDGE_BASE)
    /\ Report.status = "corrected"

\* C6: violations_corrected is a positional transform of violations_found:
\* the same length, entry by entry the same policy_id, policy_name,
\* severity, framework, description and detected_issue, with
\* auto_correction set to the correction_description of that policy; the
\* entries of violations_found keep auto_correction = None.
C6_PositionalTransform ==
    HasReport =>
        /\ Len(Report.violations_corrected) = Len(Report.violations_found)
        /\ \A i \in 1..Len(Report.violations_found) :
              /\ Report.violations_found[i].auto_correction = NULL
              /\ i <= Len(Report.violations_corrected) =>
                    LET f == Report.violations_found[i]
                        c == Report.violations_corrected[i]
                    IN  /\ c.policy_id = f.policy_id
                        /\ c.policy_name = f.policy_name
                        /\ c.severity = f.severity
                        /\ c.framework = f.framework
                        /\ c.description = f.description
                        /\ c.detected_issue = f.detected_issue
                        /\ \E p \in RegistryPolicies :
                              /\ p.policy_id = f.policy_id
                              /\ c.auto_correction = p.correction_description

\* a report with several violations, all corrected
C6_Witness ==
    /\ HasReport
    /\ Len(Report.violations_found) >= 3
    /\ Len(Report.violations_corrected) = Len(Report.violations_found)

\* the policy ids of a list of violations
PolicyIds(violations) == [i \in 1..Len(violations) |-> violations[i].policy_id]

\* the ids of `policies`, in order, restricted to those in `ids`
RECURSIVE RestrictIds(_, _)
RestrictIds(ps, ids) ==
    IF ps = <<>> THEN <<>>
    ELSE IF Head(ps).policy_id \in ids
         THEN <<Head(ps).policy_id>> \o RestrictIds(Tail(ps), ids)
         ELSE RestrictIds(Tail(ps), ids)

\* the registry policies of the selected frameworks, in declaration order
SelectedInRegistryOrder ==
    SelectSeq(POLICY_KNOWLEDGE_BASE,
              LAMBDA p : p.framework \in SetOf(intent_result.applicable_frameworks) \cup {"IBM_BASELINE"})

\* C7: violations_found and violations_corrected list their policies in
\* registry declaration order restricted to the selected frameworks, and a
\* second call with the identical input (the same architect_result and
\* intent_result) yields the same two lists as the first call.
C7_StableOrderAndRepeat ==
    /\ HasReport =>
          /\ PolicyIds(Report.violations_found)
                = RestrictIds(SelectedInRegistryOrder, SetOf(PolicyIds(Report.violations_found)))
          /\ PolicyIds(Report.violations_corrected) = PolicyIds(Report.violations_found)
    /\ (calls >= 2 /\ HasReport /\ first_result.result # <<>>) =>
          /\ Report.violations_found = first_result.result[1].violations_found
          /\ Report.violations_corrected = first_result.result[1].violations_corrected

\* the part of C7 that does not depend on the caller's manifest staying intact
C7_OrderOnly ==
    HasReport =>
        /\ PolicyIds(Report.violations_found)
              = RestrictIds(SelectedInRegistryOrder, SetOf(PolicyIds(Report.violations_found)))
        /\ PolicyIds(Report.violations_corrected) = PolicyIds(Report.violations_found)

\* C8: when pass 2 still finds a failing policy the call returns a report
\* whose status is not CORRECTED.
C8_RemainingDemotes ==
    (calls >= 1 /\ remaining_violations # <<>>) =>
        /\ HasReport
        /\ Report.status # "corrected"

\* pass 2 never finds a failing policy: the case of C8 does not arise
PassTwoFindsNothing == remaining_violations = <<>>

\* the input on which a check function raises: security_config is None
FaultyInput == manifest_data.security_config = NULL

\* C9: a fault raised inside the call is caught: the call returns a stage
\* result with stage_id 3, status FAILED, an empty result and a non-empty
\* error; without a fault the stage result has no error and carries the
\* status of its report.
C9_FaultsAreCaught ==
    calls >= 1 =>
        /\ stage_result.stage_id = 3
        /\ FaultyInput =>
              /\ stage_result.status = "failed"
              /\ stage_result.result = <<>>
              /\ stage_result.error # NULL
              /\ stage_result.error # ""
        /\ ~FaultyInput =>
              /\ stage_result.error = NULL
              /\ stage_result.result # <<>>
              /\ stage_result.status = stage_result.result[1].status

\* a call in which check_encryption_in_transit raised
C9_Witness ==
    /\ calls >= 1
    /\ FaultyInput
    /\ stage_result.error = AttributeError

\* check_vpc_isolation on the corrected manifest of the report
VpcCheckOnCorrected ==
    check_vpc_isolation(
        [InputManifest EXCEPT !.networking = NET_IN],
        [EmptyHeap EXCEPT ![NET_IN] = Report.corrected_manifest.networking])

\* C10: for a PHI manifest whose networking.vpc_enabled is false or whose
\* networking is missing, whatever the frameworks, the corrected manifest
\* has vpc_enabled, subnet_isolation and private_endpoints true and
\* check_vpc_isolation passes on it.
C10_VpcCorrection ==
    (/\ HasReport
     /\ intent_result.detected_sensitivity = "PHI"
     /\ (manifest_data.networking = MISSING \/ ~heap_before[NET_IN].vpc_enabled)) =>
        /\ Report.corrected_manifest.networking.vpc_enabled
        /\ Report.corrected_manifest.networking.subnet_isolation
        /\ Report.corrected_manifest.networking.private_endpoints
        /\ VpcCheckOnCorrected = "True"

\* a PHI manifest without networking, audited against the baseline alone
C10_Witness ==
    /\ HasReport
    /\ intent_result.detected_sensitivity = "PHI"
    /\ manifest_data.networking = MISSING
    /\ intent_result.applicable_frameworks = <<>>
    /\ Report.corrected_manifest.networking.vpc_enabled


\* the services of the input manifest, as the latest call found them
InputServices == DictGet(manifest_data, heap_before, "services", <<>>)

\* the manifest of the report, as a manifest the check functions can read
CorrectedAsManifest ==
    [InputManifest EXCEPT !.services = SVC_IN, !.networking = NET_IN, !.security_config = SEC_IN]

CorrectedAsHeap ==
    [EmptyHeap EXCEPT ![SVC_IN] = Report.corrected_manifest.services,
                      ![NET_IN] = Report.corrected_manifest.networking,
                      ![SEC_IN] = Report.corrected_manifest.security_config]

\* the input has a database service outside the EU regions
HasNonEUDatabase ==
    \E i \in 1..Len(InputServices) :
        InputServices[i].role = "database" /\ InputServices[i].region \notin EURegions

\* C11: when a manifest with a database service in a non-EU region is
\* audited with GDPR among the frameworks, POL-GDPR-001 is reported, every
\* database service of the corrected manifest is in an EU region,
\* check_region_compliance passes on the corrected manifest, and the region
\* of every other service is what it was.
C11_RegionCorrection ==
    (/\ HasReport
     /\ "GDPR" \in SetOf(intent_result.applicable_frameworks)
     /\ HasNonEUDatabase) =>
        LET fixed == Report.corrected_manifest.services
        IN  /\ "POL-GDPR-001" \in SetOf(PolicyIds(Report.violations_found))
            /\ Len(fixed) = Len(InputServices)
            /\ \A i \in 1..Len(fixed) :
                  /\ fixed[i].role = "database" => fixed[i].region \in EURegions
                  /\ fixed[i].role # "database" =>
                        fixed[i].region = CloudService(InputServices[i]).region
            /\ check_region_compliance(CorrectedAsManifest, CorrectedAsHeap) = "True"

\* a non-EU database and a hosting service were audited against GDPR
C11_Witness ==
    /\ HasReport
    /\ "GDPR" \in SetOf(intent_result.applicable_frameworks)
    /\ Len(InputServices) = 2
    /\ InputServices[1].role = "hosting"
    /\ InputServices[2].role = "database"
    /\ InputServices[2].region = "us-south"
    /\ Report.corrected_manifest.services[2].region = "eu-gb"


\* the ids of the selected policies that fail on the input, in selection order
FailingIdsOnInput ==
    PolicyIds(SelectSeq(policies, LAMBDA p : FailsOnInput(p)))

\* the first call returned a PASSED report
FirstCallPassed ==
    /\ first_result.result # <<>>
    /\ first_result.result[1].status = "passed"

SomeKeyMissing ==
    /\ MISSING \in {manifest_data.services, manifest_data.networking, manifest_data.security_config}
    /\ manifest_data.security_config # NULL

\* the caller's manifest with each absent key present and holding its
\* default: no services, all networking flags off, all security flags off
DefaultedManifest ==
    [services |-> SVC_IN, networking |-> NET_IN, security_config |-> SEC_IN]

\* C13: a manifest from which services, networking or security_config is
\* missing is audited without fault: the call returns a report, PASSED or
\* CORRECTED, with no error, and the report is the one the same manifest
\* gets with the missing services given as an empty list and the missing
\* networking or security_config block given with every control disabled.
C13_MissingKeysTolerated ==
    (calls >= 1 /\ SomeKeyMissing) =>
        /\ HasReport
        /\ stage_result.error = NULL
        /\ Report.status \in {"passed", "corrected"}
        /\ stage_result = run_governance_guardrail(DefaultedManifest, heap_before, intent_result).stage_result

\* an empty manifest was audited under PHI and came back corrected
C13_Witness ==
    /\ HasReport
    /\ manifest_data.services = MISSING
    /\ manifest_data.networking = MISSING
    /\ manifest_data.security_config = MISSING
    /\ intent_result.detected_sensitivity = "PHI"
    /\ Report.status = "corrected"
    /\ Report.corrected_manifest.networking.vpc_enabled
    /\ Report.corrected_manifest.services = <<>>


\* the requested identifiers that are ComplianceFramework values, in request order
RecognizedRequest ==
    SelectSeq(intent_result.applicable_frameworks, LAMBDA f : f \in ComplianceFrameworkValues)

\* C14: the report's applicable_frameworks is the requested list with the
\* identifiers that are not ComplianceFramework values left out, order and
\* repetitions kept; an unrecognized identifier in the request causes no
\* fault and no FAILED result, and the policies selected are those selected
\* for the recognized identifiers alone.
C14_FrameworksResolved ==
    /\ HasReport => Report.applicable_frameworks = RecognizedRequest
    /\ (calls >= 1 /\ ~FaultyInput) =>
          /\ HasReport
          /\ stage_result.status # "failed"
          /\ stage_result.error = NULL
    /\ calls >= 1 => policies = get_policies_for_frameworks(RecognizedRequest)

\* a request with an unrecognized identifier between recognized ones was reported
C14_Witness ==
    /\ HasReport
    /\ intent_result.applicable_frameworks = <<"GDPR", "NIST", "HIPAA", "GDPR">>
    /\ Report.applicable_frameworks = <<"GDPR", "HIPAA", "GDPR">>
    /\ Len(policies) = 8


\* the violations of seq at the positions in S, in order
SubList(seq, S) ==
    LET F[i \in 0..Len(seq)] ==
            IF i = 0 THEN <<>>
            ELSE IF i \in S THEN Append(F[i - 1], seq[i]) ELSE F[i - 1]
    IN  F[Len(seq)]

\* C15: the score is monotone and bounded. For a CORRECTED report with
\* pass-1 violations V2, the score of a fully corrected audit with any
\* sub-collection V1 of V2 is at least the reported score, and the reported
\* score is at least 60 and at most 100, the score of PASSED.
C15_ScoreMonotone ==
    (HasReport /\ Report.status = "corrected") =>
        LET V2 == Report.violations_found
        IN  /\ Report.final_compliance_score >= 60
            /\ Report.final_compliance_score <= FinalStatus(<<>>, <<>>).score
            /\ \A S \in SUBSET (1..Len(V2)) :
                  LET V1 == SubList(V2, S)
                  IN  FinalStatus(V1, V1).score >= Report.final_compliance_score

\* an audit with critical and warning violations was scored above the floor
C15_Witness ==
    /\ HasReport
    /\ Report.status = "corrected"
    /\ CountSeverity(Report.violations_found, "critical") >= 2
    /\ CountSeverity(Report.violations_found, "warning") >= 1
    /\ Report.final_compliance_score > 60
    /\ Report.final_compliance_score < 92


\* service i of the report's manifest has the plan the input gave it
PlanAsInput(i) ==
    Report.corrected_manifest.services[i].plan = CloudService(InputServices[i]).plan

\* C16: when POL-HIPAA-002 is violated and detected_sensitivity is PHI,
\* every database service of the corrected manifest has plan "dedicated",
\* encryption_at_rest is true and every other service keeps its plan; when
\* detected_sensitivity is not PHI, or POL-HIPAA-002 is not violated, every
\* service keeps its plan.
C16_DedicatedPlanUnderPHI ==
    HasReport =>
        LET fixed == Report.corrected_manifest.services
            upgrading == /\ "POL-HIPAA-002" \in SetOf(PolicyIds(Report.violations_found))
                         /\ intent_result.detected_sensitivity = "PHI"
        IN  /\ Len(fixed) = Len(InputServices)
            /\ upgrading =>
                  /\ Report.corrected_manifest.security_config.encryption_at_rest
                  /\ \A i \in 1..Len(fixed) :
                        IF fixed[i].role = "database"
                        THEN fixed[i].plan = "dedicated"
                        ELSE PlanAsInput(i)
            /\ ~upgrading => \A i \in 1..Len(fixed) : PlanAsInput(i)

\* a database and a hosting service were audited against HIPAA under PHI
C16_Witness ==
    /\ HasReport
    /\ intent_result.detected_sensitivity = "PHI"
    /\ "POL-HIPAA-002" \in SetOf(PolicyIds(Report.violations_found))
    /\ Len(InputServices) = 2
    /\ InputServices[1].role = "database"
    /\ InputServices[1].plan = "standard"
    /\ InputServices[2].role = "hosting"
    /\ Report.corrected_manifest.services[1].plan = "dedicated"
    /\ Report.corrected_manifest.services[2].plan = "standard"


\* the audit of the report's manifest, with the sensitivity and frameworks of the call
ReAudit == run_governance_guardrail(DefaultedManifest, CorrectedAsHeap, intent_result).stage_result

\* C18: one correction pass is enough with the shipped registry. In every
\* call that returns a report, pass 2 finds no selected policy failing on
\* the corrected manifest, and auditing the corrected manifest of the
\* report again with the same sensitivity and frameworks yields PASSED with
\* score 100 and no violation.
C18_OnePassSuffices ==
    HasReport =>
        /\ remaining_violations = <<>>
        /\ \A i \in 1..Len(policies) : CheckFn(policies[i], CorrectedAsManifest, CorrectedAsHeap) = "True"
        /\ \A again \in {ReAudit} :
              /\ again.status = "passed"
              /\ again.result # <<>>
              /\ again.result[1].violations_found = <<>>
              /\ again.result[1].final_compliance_score = 100

\* a report with corrections to networking, security and services was produced
C18_Witness ==
    /\ HasReport
    /\ Len(Report.violations_found) = 8
    /\ Len(Report.violations_corrected) = 8
    /\ InputServices # <<>>
    /\ ReAudit.status = "passed"


\* seq in the opposite order
Reverse(seq) == [i \in 1..Len(seq) |-> seq[Len(seq) + 1 - i]]

\* every order in which a call may have to apply corrections to ws gives the same result
OrderFree(ws) ==
    \A frameworks \in FrameworkLists :
       LET selected == get_policies_for_frameworks(frameworks)
           found == AuditPass(selected, ws.m, ws.h).found
       IN  CorrectionPass(selected, Reverse(found), ws).ws = CorrectionPass(selected, found, ws).ws

\* C19: on every manifest, as given and after any sequence of corrections,
\* each shipped correction function is idempotent and any two of them
\* commute, and the corrections of the violations found for a framework
\* list give the same manifest applied in registry order and in the
\* opposite order.
C19_CorrectionsCommute ==
    \A w \in {WorkingCopyNow} :
       /\ \A i \in 1..Len(POLICY_KNOWLEDGE_BASE) :
             \A once \in {Correction(i, w)} :
                /\ once.error = ""
                /\ Correction(i, once) = once
                /\ \A j \in (i + 1)..Len(POLICY_KNOWLEDGE_BASE) :
                      Correction(j, once) = Correction(i, Correction(j, w))
       /\ OrderFree(w)

\* corrections created the networking block, upgraded a database and moved it
C19_Witness ==
    /\ manifest_data.networking = NET_NEW
    /\ heap[NET_NEW].private_endpoints
    /\ ~heap[NET_NEW].vpc_enabled
    /\ manifest_data.services = SVC_IN
    /\ \E i \in 1..Len(heap[SVC_IN]) :
          /\ heap[SVC_IN][i].plan = "dedicated"
          /\ heap[SVC_IN][i].region = "eu-gb"


\* the networking and security_config blocks of the input, absent read as all-false
InputNetworking == DictGet(InputManifest, heap_before, "networking", NoNetworking)

InputSecurity == DictGet(InputManifest, heap_before, "security_config", NoSecurity)

\* C20: corrections only strengthen the manifest. In every report, each
\* networking and security_config flag that is true in the input is true
\* in the corrected manifest; no selected policy that passed on the input
\* is among the pass-2 failures or fails on the corrected manifest; the
\* services are the input's, same number, order, name, id and role; and a
\* service's region or plan differs from the input's only if its role is
\* database.
C20_CorrectionsOnlyStrengthen ==
    HasReport =>
        LET fixed == Report.corrected_manifest
        IN  /\ \A f \in DOMAIN NoNetworking : InputNetworking[f] => fixed.networking[f]
            /\ \A f \in DOMAIN NoSecurity : InputSecurity[f] => fixed.security_config[f]
            /\ \A i \in 1..Len(policies) :
                  ~FailsOnInput(policies[i]) =>
                     /\ policies[i].policy_id \notin SetOf(remaining_violations)
                     /\ CheckFn(policies[i], CorrectedAsManifest, CorrectedAsHeap) = "True"
            /\ Len(fixed.services) = Len(InputServices)
            /\ \A i \in 1..Len(fixed.services) :
                  \A given \in {CloudService(InputServices[i])} :
                     /\ fixed.services[i].service_name = given.service_name
                     /\ fixed.services[i].service_id = given.service_id
                     /\ fixed.services[i].role = given.role
                     /\ (fixed.services[i].region # given.region \/ fixed.services[i].plan # given.plan)
                           => given.role = "database"

\* flags set in the input survived a correction of both blocks and of a database
C20_Witness ==
    /\ HasReport
    /\ Report.status = "corrected"
    /\ InputNetworking.vpc_enabled /\ ~InputNetworking.private_endpoints
    /\ InputSecurity.encryption_in_transit /\ ~InputSecurity.iam_policies
    /\ Report.corrected_manifest.networking.private_endpoints
    /\ Report.corrected_manifest.security_config.iam_policies
    /\ Len(InputServices) = 2
    /\ InputServices[1].role = "hosting"
    /\ InputServices[2].region # Report.corrected_manifest.services[2].region
    /\ \E i \in 1..Len(policies) : ~FailsOnInput(policies[i])

\* C17: the policy registry is read-only. Whatever calls run and however
\* their steps interleave, POLICY_KNOWLEDGE_BASE keeps its contents and
\* order, and a call that has returned, on a manifest of its own, has
\* returned the StageResult and left the objects that the same call
\* returns and leaves when it runs alone.
C17_RegistryReadOnly ==
    /\ registry = POLICY_KNOWLEDGE_BASE
    /\ \A p \in Procs :
          inv[p].pc = "done" =>
             \A alone \in {run_governance_guardrail(inv[p].md, inv[p].h0, inv[p].intent)} :
                /\ inv[p].result = alone.stage_result
                /\ inv[p].ws.h = alone.h

\* two calls that ran at the same time have both returned, one with a
\* corrected report and one with a different result
C17_Witness ==
    /\ \A p \in Procs : inv[p].pc = "done" /\ inv[p].overlapped
    /\ inv[1].result.status = "corrected"
    /\ Len(inv[1].result.result[1].violations_corrected) = 8
    /\ inv[2].result # inv[1].result
    /\ inv[2].result.result # <<>>
    /\ inv[2].md # inv[1].md


\* field of an input service dict, or the documented default when it is absent
FieldOr(svc, field, default) == IF svc[field] = MISSING THEN default ELSE svc[field]

\* C21: a PASSED call invokes no correction function: it reports no
\* corrected violation and leaves every object as it found it, and the
\* corrected_manifest of its report has the services of the input (name,
\* id, role, region and plan, an absent field read as its default: Unknown,
\* unknown, hosting, us-south, standard), the networking flags of the input
\* and the security_config flags of the input, an absent block read as
\* all-false.
C21_PassedLeavesManifest ==
    (HasReport /\ Report.status = "passed") =>
        LET fixed == Report.corrected_manifest
        IN  /\ Report.violations_corrected = <<>>
            /\ heap = heap_before
            /\ Len(fixed.services) = Len(InputServices)
            /\ \A i \in 1..Len(fixed.services) :
                  /\ fixed.services[i].service_name = FieldOr(InputServices[i], "service_name", "Unknown")
                  /\ fixed.services[i].service_id = FieldOr(InputServices[i], "service_id", "unknown")
                  /\ fixed.services[i].role = FieldOr(InputServices[i], "role", "hosting")
                  /\ fixed.services[i].region = FieldOr(InputServices[i], "region", "us-south")
                  /\ fixed.services[i].plan = FieldOr(InputServices[i], "plan", "standard")
            /\ fixed.networking = InputNetworking
            /\ fixed.security_config = InputSecurity

\* a manifest with a database and a hosting service without plan passed
C21_Witness ==
    /\ HasReport
    /\ Report.status = "passed"
    /\ Len(policies) >= 5
    /\ Len(InputServices) = 2
    /\ InputServices[1].role = "database"
    /\ InputServices[2].plan = MISSING
    /\ Report.corrected_manifest.services[2].plan = "standard"
    /\ Report.corrected_manifest.services[1].region = "us-south"
    /\ InputNetworking.private_endpoints
    /\ InputSecurity.encryption_at_rest

====
